---- MODULE Spec2Model ----
(***************************************************************************)
(* Model of diffusion_policy/dataset/sapien_dataset.py:                    *)
(*   - the cache section of SapienDataset.__init__ (file lock, existence   *)
(*     check, build, save, cleanup, load), run by several processes;       *)
(*   - the converter _convert_sapein_to_dp_replay with its encode pool;    *)
(*   - the train/validation masks and get_validation_dataset.              *)
(***************************************************************************)
EXTENDS Integers, Sequences, FiniteSets, TLC

VARIABLES
  \* ---- cache section (SapienDataset.__init__, lines 214-250) ----
  dataset_dir,    \* the source directory: the step count of episode_0, episode_1, ...
  pc,             \* per process: where it is in __init__
  use_cache,      \* per process: the use_cache argument
  lock,           \* holder of FileLock(cache.zarr.zip.lock), NoProc when free
  archive,        \* the file <dataset_dir>/cache.zarr.zip
  replay_buffer,  \* per process: the local replay_buffer
  exc,            \* per process: the exception propagating, NoExc when none
  origExc,        \* history: the exception E first raised by build or save
  path,           \* history: which branch the process took
  seenArchive,    \* history: the archive as the existence check saw it
  converts,       \* history: converter executions inside the cache section
  saves,          \* history: archives opened for writing
  failures,       \* history: failed builds and failed saves inside the cache section
  \* ---- converter (_convert_sapein_to_dp_replay, lines 67-193) ----
  shape_meta,          \* [rgb_keys, lowdim_keys] parsed from shape_meta['obs']
  max_inflight_tasks,  \* the max_inflight_tasks argument
  num_episodes,        \* len(glob('episode_*.hdf5'))
  files,               \* the episode files read so far: what each one holds
  bpc,                 \* where the converter is
  prev_end,
  episode_ends,
  lowdim_data_dict,    \* key -> list of per-episode arrays
  rgb_data_dict,       \* key -> list of per-episode resized frame arrays
  n_steps,
  data_group,          \* root['data']: key -> array
  key_idx,             \* position of the rgb loop in rgb_data_dict.items()
  hdf5_idx,            \* next frame of the current key to submit
  futures,             \* the set futures: submitted tasks not yet collected
  overtaken,           \* history: a task finished before one submitted earlier
  submitted,           \* history: <<key, zarr_idx>> of every executor.submit, in order
  task_failed,         \* history: some img_copy returned False
  \* ---- train/validation split (lines 265-299) ----
  n_episodes,     \* replay_buffer.n_episodes
  datasets,       \* the SapienDataset objects: [train_mask, sampler]
  calls           \* history: the get_validation_dataset calls made

cacheVars == <<dataset_dir, pc, use_cache, lock, archive, replay_buffer, exc,
               origExc, path, seenArchive, converts, saves, failures>>

buildVars == <<shape_meta, max_inflight_tasks, num_episodes, files, bpc, prev_end,
               episode_ends, lowdim_data_dict, rgb_data_dict, n_steps, data_group,
               key_idx, hdf5_idx, futures, overtaken, submitted, task_failed>>

splitVars == <<n_episodes, datasets, calls>>

vars == <<cacheVars, buildVars, splitVars>>

\* What a step of one part leaves alone.
nonCacheVars == <<buildVars, splitVars>>
nonBuildVars == <<cacheVars, splitVars>>
nonSplitVars == <<cacheVars, buildVars>>

----------------------------------------------------------------------------
\* Bounds of the model.
NumProcs == 2
MaxEpisodes == 2
MaxLen == 2
MaxFrames == 3
MaxInflight == 2
MaxDatasets == 5

Procs == 1..NumProcs
NoProc == 0

NoExc == "none"
\* A store is its two groups, each a set of <<array name, value>>.
NoStore == [meta |-> {}, data |-> {}]
NoArchive == [exists |-> FALSE, entries |-> <<>>]

\* Source directories the cache section is run on: an empty one (the converter
\* raises on it) and two valid ones.
CacheDirs == {<<>>, <<1>>, <<2, 1>>}

\* rotation_rep default of __init__.
RotationRep == "rotation_6d"

----------------------------------------------------------------------------
\* The converter, as the function of its arguments that the cache section sees.

\* An episode end that forgets the previous episodes.
EpisodeEndNoOffset(prev, episode_length) == episode_length

\* episode_end = prev_end + episode_length
EpisodeEnd(prev, episode_length) == prev + episode_length

RECURSIVE EpisodeEnds(_)
\* episode_ends after the loop over the episodes whose lengths are lens.
EpisodeEnds(lens) ==
  IF lens = <<>> THEN <<>>
  ELSE LET front == EpisodeEnds(SubSeq(lens, 1, Len(lens) - 1))
           prev == IF front = <<>> THEN 0 ELSE front[Len(front)]
       IN Append(front, EpisodeEnd(prev, lens[Len(lens)]))

\* One converted action row: position and gripper kept, rotation re-encoded.
ConvertAction(row, rot) == [raw |-> row, rot |-> rot]

RECURSIVE ActionRows(_, _, _)
\* np.concatenate of the converted action rows of episodes k..N-1.
ActionRows(lens, k, rot) ==
  IF k > Len(lens) THEN <<>>
  ELSE [i \in 1..lens[k] |-> ConvertAction(<<k - 1, i - 1>>, rot)]
       \o ActionRows(lens, k + 1, rot)

\* Whether the converter raises on the directory: n_steps = episode_ends[-1]
\* is an IndexError when no episode file matches.
ConvertRaises(dir) == dir = <<>>

\* The store the converter returns.
ConvertStore(dir, rot) ==
  [meta |-> {<<"episode_ends", EpisodeEnds(dir)>>},
   data |-> {<<"action", ActionRows(dir, 1, rot)>>}]

\* A cache branch that converts with another rotation representation.
BuildCachedOtherRotation(dir) == ConvertStore(dir, "axis_angle")

\* The converter call of the cache branch (lines 225-229).
BuildCached(dir) == ConvertStore(dir, RotationRep)

\* The converter call of the use_cache=False branch (lines 245-249).
BuildDirect(dir) == ConvertStore(dir, RotationRep)

----------------------------------------------------------------------------
\* ReplayBuffer.save_to_store / copy_from_store and the zip archive. An archive
\* is the sequence of <<path, value>> entries written to it so far.

RECURSIVE SetToSeq(_)
SetToSeq(S) ==
  IF S = {} THEN <<>>
  ELSE LET x == CHOOSE y \in S : TRUE IN <<x>> \o SetToSeq(S \ {x})

\* The entries save_to_store writes, in order: the meta group, then the data group.
EntriesOf(store) ==
  [i \in 1..Cardinality(store.meta) |->
      <<"meta/" \o SetToSeq(store.meta)[i][1], SetToSeq(store.meta)[i][2]>>]
  \o
  [i \in 1..Cardinality(store.data) |->
      <<"data/" \o SetToSeq(store.data)[i][1], SetToSeq(store.data)[i][2]>>]

\* The arrays of one group found in the entries.
GroupOf(entries, names, prefix) ==
  {<<q[1], entries[q[2]][2]>> :
      q \in {r \in names \X (1..Len(entries)) : entries[r[2]][1] = prefix \o r[1]}}

\* copy_from_store raises when the meta group is missing from the archive.
CopyRaises(entries) == GroupOf(entries, {"episode_ends"}, "meta/") = {}

\* The store copy_from_store returns: every array the archive holds.
CopyFromStore(entries) ==
  [meta |-> GroupOf(entries, {"episode_ends"}, "meta/"),
   data |-> GroupOf(entries, {"action"}, "data/")]

----------------------------------------------------------------------------
\* shutil.rmtree(path) of the cleanup handler. The path is a regular file or does
\* not exist: rmtree removes directory trees only, so it removes nothing and
\* raises (NotADirectoryError for a file, FileNotFoundError for a missing path).
Rmtree(file) ==
  IF file.exists
  THEN [file |-> file, raises |-> "NotADirectoryError"]
  ELSE [file |-> file, raises |-> "FileNotFoundError"]

\* A lock that excludes nobody.
LockAlwaysFree(holder) == TRUE

\* FileLock.acquire: the lock is taken only when no process holds it.
LockFree(holder) == holder = NoProc

\* os.path.exists(cache_zarr_path)
PathExists(file) == file.exists

----------------------------------------------------------------------------
\* The converter _convert_sapein_to_dp_replay, step by step.

\* The shape metadata the converter is run with: its rgb keys and its low_dim keys.
ShapeMetas ==
  { [rgb_keys |-> <<>>, lowdim_keys |-> <<"qpos">>],
    [rgb_keys |-> <<"cam0">>, lowdim_keys |-> <<"qpos">>],
    [rgb_keys |-> <<"cam0", "cam1">>, lowdim_keys |-> <<>>] }

Range(f) == {f[x] : x \in DOMAIN f}

RECURSIVE Concat(_)
\* np.concatenate(list, axis=0)
Concat(list) ==
  IF list = <<>> THEN <<>> ELSE Head(list) \o Concat(Tail(list))

RECURSIVE SumOver(_, _)
SumOver(f, S) ==
  IF S = {} THEN 0
  ELSE LET x == CHOOSE y \in S : TRUE IN f[x] + SumOver(f, S \ {x})

\* Row i of array key of episode e, as the file holds it.
RawRow(key, e, i) == [key |-> key, ep |-> e, step |-> i]

\* cv2.resize(img, (w,h), interpolation=cv2.INTER_AREA)
Resize(img) == [resized |-> img]

\* What a frame chunk decodes to after the Jpeg2k(level=50) compressor.
Jpeg2k(img) == [jp2 |-> img]

\* A chunk of an image array that no task has written: the fill value.
Unwritten == [fill |-> 0]

\* file[data_key][()] of a low_dim key, and the converted cartesian_action.
LowdimArray(key, e, len) == [i \in 1..len |-> RawRow(key, e, i - 1)]
ActionArray(e, len) == [i \in 1..len |-> ConvertAction(<<e, i - 1>>, RotationRep)]

\* The resized frames of one image stream of one episode.
ResizedFrames(key, e, len) == [i \in 1..len |-> Resize(RawRow(key, e, i - 1))]

\* Frames held by the files read so far, over all image streams.
FramesRead == SumOver([k \in 1..Len(files) |->
                         SumOver(files[k].img, DOMAIN files[k].img)],
                      1..Len(files))

\* Every frame sent to the first chunk.
ZarrIdxFirstChunk(idx) == 0

\* zarr_idx = hdf5_idx
ZarrIdx(idx) == idx

\* A cap that lets one task more in.
AtCapOffByOne(n, cap) == n > cap

\* len(futures) >= max_inflight_tasks
AtCap(n, cap) == n >= cap

\* Results that are collected and never looked at.
ResultsIgnored(completed) == FALSE

\* for f in completed: if not f.result(): raise RuntimeError
AnyFailed(completed) == \E f \in completed : f.state = "failed"

\* A final wait that returns without waiting.
NoWait(fs) == TRUE

\* concurrent.futures.wait(futures) returns once every future is done.
AllDone(fs) == \A f \in fs : f.state # "queued"

\* hdf5_arr of the rgb key the loop is at.
Hdf5Arr == Concat(rgb_data_dict[shape_meta.rgb_keys[key_idx]])

\* The converter is not running.
BuildIdle ==
  /\ shape_meta = [rgb_keys |-> <<>>, lowdim_keys |-> <<>>]
  /\ max_inflight_tasks = 0
  /\ num_episodes = 0
  /\ files = <<>>
  /\ bpc = "idle"
  /\ prev_end = 0
  /\ episode_ends = <<>>
  /\ lowdim_data_dict = <<>>
  /\ rgb_data_dict = <<>>
  /\ n_steps = 0
  /\ data_group = <<>>
  /\ key_idx = 0
  /\ hdf5_idx = 0
  /\ futures = {}
  /\ overtaken = FALSE
  /\ submitted = <<>>
  /\ task_failed = FALSE

\* The converter is called on a directory of num_episodes episode files.
BuildInit ==
  /\ shape_meta \in ShapeMetas
  /\ max_inflight_tasks \in 1..MaxInflight
  /\ num_episodes \in 0..MaxEpisodes
  /\ files = <<>>
  /\ bpc = "read"
  /\ prev_end = 0
  /\ episode_ends = <<>>
  /\ lowdim_data_dict = [k \in Range(shape_meta.lowdim_keys) \cup {"action"} |-> <<>>]
  /\ rgb_data_dict = [k \in Range(shape_meta.rgb_keys) |-> <<>>]
  /\ n_steps = 0
  /\ data_group = <<>>
  /\ key_idx = 0
  /\ hdf5_idx = 0
  /\ futures = {}
  /\ overtaken = FALSE
  /\ submitted = <<>>
  /\ task_failed = FALSE

\* One iteration of the loop over epi_idx (lines 96-132): episode_{epi_idx}.hdf5
\* holds steps action rows, low[key] rows of each low_dim key and img[key] frames
\* of each image stream.
ReadEpisode(steps, low, img) ==
  /\ bpc = "read"
  /\ Len(files) < num_episodes
  /\ FramesRead + SumOver(img, DOMAIN img) <= MaxFrames
  /\ LET e == Len(files)
         episode_end == EpisodeEnd(prev_end, steps)
         lowOk == \A k \in DOMAIN low : low[k] = steps
         imgOk == \A k \in DOMAIN img : img[k] > 0
     IN /\ files' = Append(files, [steps |-> steps, low |-> low, img |-> img])
        /\ prev_end' = episode_end
        /\ episode_ends' = Append(episode_ends, episode_end)
        /\ IF lowOk
           THEN lowdim_data_dict' =
                  [k \in DOMAIN lowdim_data_dict |->
                     Append(lowdim_data_dict[k],
                            IF k = "action" THEN ActionArray(e, steps)
                            ELSE LowdimArray(k, e, low[k]))]
           ELSE UNCHANGED lowdim_data_dict
        /\ IF lowOk /\ imgOk
           THEN /\ rgb_data_dict' =
                     [k \in DOMAIN rgb_data_dict |->
                        Append(rgb_data_dict[k], ResizedFrames(k, e, img[k]))]
                /\ UNCHANGED bpc
           ELSE /\ bpc' = "failed"
                /\ UNCHANGED rgb_data_dict
  /\ UNCHANGED <<shape_meta, max_inflight_tasks, num_episodes, n_steps, data_group,
                 key_idx, hdf5_idx, futures, overtaken, submitted, task_failed>>
  /\ UNCHANGED nonBuildVars

\* Lines 143-159: n_steps = episode_ends[-1] (an IndexError with no episode),
\* then the meta array and the concatenated low_dim arrays are written.
DumpLowdim ==
  /\ bpc = "read"
  /\ Len(files) = num_episodes
  /\ IF episode_ends = <<>>
     THEN /\ bpc' = "failed"
          /\ UNCHANGED <<n_steps, data_group>>
     ELSE /\ n_steps' = episode_ends[Len(episode_ends)]
          /\ data_group' = [k \in DOMAIN lowdim_data_dict |-> Concat(lowdim_data_dict[k])]
          /\ bpc' = "rgb"
  /\ UNCHANGED <<shape_meta, max_inflight_tasks, num_episodes, files, prev_end,
                 episode_ends, lowdim_data_dict, rgb_data_dict, key_idx, hdf5_idx,
                 futures, overtaken, submitted, task_failed>>
  /\ UNCHANGED nonBuildVars

\* The rgb loop is at the end of the current key's frames (or before the first key).
KeyExhausted == IF key_idx = 0 THEN TRUE ELSE hdf5_idx = Len(Hdf5Arr)

\* Lines 164-175: the next rgb key: img_arr = data_group.require_dataset(...) of
\* n_steps chunks, none written.
BeginKey ==
  /\ bpc = "rgb"
  /\ KeyExhausted
  /\ key_idx < Len(shape_meta.rgb_keys)
  /\ key_idx' = key_idx + 1
  /\ hdf5_idx' = 0
  /\ data_group' = data_group @@
        (shape_meta.rgb_keys[key_idx + 1] :> [i \in 1..n_steps |-> Unwritten])
  /\ UNCHANGED <<shape_meta, max_inflight_tasks, num_episodes, files, bpc, prev_end,
                 episode_ends, lowdim_data_dict, rgb_data_dict, n_steps, futures,
                 overtaken, submitted, task_failed>>
  /\ UNCHANGED nonBuildVars

\* Lines 176-187: one iteration of the loop over hdf5_idx. At the cap the loop
\* waits for a first completion, collects every completed future and raises if
\* one of them failed; then it submits the frame.
SubmitFrame ==
  /\ bpc = "rgb"
  /\ key_idx >= 1
  /\ hdf5_idx < Len(Hdf5Arr)
  /\ LET key == shape_meta.rgb_keys[key_idx]
         atCap == AtCap(Cardinality(futures), max_inflight_tasks)
         completed == {f \in futures : f.state # "queued"}
         task == [key |-> key, zarr_idx |-> ZarrIdx(hdf5_idx),
                  hdf5_idx |-> hdf5_idx, state |-> "queued"]
     IN /\ atCap => completed # {}
        /\ IF atCap /\ AnyFailed(completed)
           THEN /\ bpc' = "failed"
                /\ futures' = futures \ completed
                /\ UNCHANGED <<hdf5_idx, submitted>>
           ELSE /\ futures' = (IF atCap THEN futures \ completed ELSE futures)
                                 \cup {task}
                /\ hdf5_idx' = hdf5_idx + 1
                /\ submitted' = Append(submitted, <<task.key, task.zarr_idx>>)
                /\ UNCHANGED bpc
  /\ UNCHANGED <<shape_meta, max_inflight_tasks, num_episodes, files, prev_end,
                 episode_ends, lowdim_data_dict, rgb_data_dict, n_steps, data_group,
                 key_idx, overtaken, task_failed>>
  /\ UNCHANGED nonBuildVars

\* Task g was submitted before task f: an earlier key, or an earlier frame of
\* the same key.
SubmittedBefore(g, f) ==
  LET pos(key) == CHOOSE i \in DOMAIN shape_meta.rgb_keys :
                     shape_meta.rgb_keys[i] = key
  IN IF g.key = f.key THEN g.hdf5_idx < f.hdf5_idx ELSE pos(g.key) < pos(f.key)

\* img_copy (lines 134-141) run by a pool thread: the frame is written to its
\* chunk and read back; any exception makes the task return False. wrote says
\* whether the assignment took effect, ok whether the task returns True. Any
\* queued task may be the next to run, which covers every n_workers.
RunTask(f, wrote, ok) ==
  /\ bpc \in {"rgb", "failed"}
  /\ f \in futures
  /\ f.state = "queued"
  /\ LET inBounds == f.zarr_idx < n_steps
         src == Concat(rgb_data_dict[f.key])
     IN /\ wrote => inBounds
        /\ ok => wrote
        /\ data_group' =
             IF wrote
             THEN [data_group EXCEPT ![f.key][f.zarr_idx + 1] = Jpeg2k(src[f.hdf5_idx + 1])]
             ELSE data_group
  /\ futures' = (futures \ {f}) \cup {[f EXCEPT !.state = IF ok THEN "ok" ELSE "failed"]}
  /\ overtaken' = (overtaken \/ \E g \in futures :
                      g.state = "queued" /\ SubmittedBefore(g, f))
  /\ task_failed' = (task_failed \/ ~ok)
  /\ UNCHANGED <<shape_meta, max_inflight_tasks, num_episodes, files, bpc, prev_end,
                 episode_ends, lowdim_data_dict, rgb_data_dict, n_steps, key_idx,
                 hdf5_idx, submitted>>
  /\ UNCHANGED nonBuildVars

\* Lines 188-193: after the last key, wait for every future, raise if one failed,
\* else return ReplayBuffer(root).
FinalWait ==
  /\ bpc = "rgb"
  /\ KeyExhausted
  /\ key_idx = Len(shape_meta.rgb_keys)
  /\ AllDone(futures)
  /\ bpc' = IF AnyFailed(futures) THEN "failed" ELSE "done"
  /\ futures' = {}
  /\ UNCHANGED <<shape_meta, max_inflight_tasks, num_episodes, files, prev_end,
                 episode_ends, lowdim_data_dict, rgb_data_dict, n_steps, data_group,
                 key_idx, hdf5_idx, overtaken, submitted, task_failed>>
  /\ UNCHANGED nonBuildVars

BuildNext ==
  \/ \E steps \in 0..MaxLen,
          low \in [Range(shape_meta.lowdim_keys) -> 0..MaxLen],
          img \in [Range(shape_meta.rgb_keys) -> 0..MaxLen] :
       ReadEpisode(steps, low, img)
  \/ DumpLowdim
  \/ BeginKey
  \/ SubmitFrame
  \/ \E f \in futures, wrote \in BOOLEAN, ok \in BOOLEAN : RunTask(f, wrote, ok)
  \/ FinalWait

----------------------------------------------------------------------------
\* The episode masks of SapienDataset.__init__ and get_validation_dataset.

\* A mask left as it is.
KeepMask(mask) == mask

\* ~mask on a boolean array
Invert(mask) == [e \in DOMAIN mask |-> ~mask[e]]

\* SequenceSampler(..., episode_mask=mask): the sampler keeps the mask.
SequenceSampler(mask) == [episode_mask |-> mask]

\* No dataset has been constructed.
SplitIdle ==
  /\ n_episodes = 0
  /\ datasets = <<>>
  /\ calls = {}

\* A store of n_episodes episodes is at hand and no dataset is constructed yet.
SplitInit ==
  /\ n_episodes \in 0..MaxEpisodes
  /\ datasets = <<>>
  /\ calls = {}

\* Lines 265-282 of __init__: val_mask is what get_val_mask returned.
Construct(val_mask) ==
  /\ datasets = <<>>
  /\ LET train_mask == Invert(val_mask)
     IN datasets' = <<[train_mask |-> train_mask,
                       sampler |-> SequenceSampler(train_mask)]>>
  /\ UNCHANGED <<n_episodes, calls>>
  /\ UNCHANGED nonSplitVars

\* get_validation_dataset called on dataset d: val_set = copy.copy(self) is a
\* new object, whose sampler and train_mask are then assigned.
GetValidationDataset(d) ==
  /\ d \in 1..Len(datasets)
  /\ Len(datasets) < MaxDatasets
  /\ LET self == datasets[d]
         val_set == [self EXCEPT
                       !.sampler = SequenceSampler(Invert(self.train_mask)),
                       !.train_mask = Invert(self.train_mask)]
     IN /\ datasets' = Append(datasets, val_set)
        /\ calls' = calls \cup {[self |-> d, val_set |-> Len(datasets) + 1,
                                 before |-> self]}
  /\ UNCHANGED n_episodes
  /\ UNCHANGED nonSplitVars

SplitNext ==
  \/ \E val_mask \in [1..n_episodes -> BOOLEAN] : Construct(val_mask)
  \/ \E d \in 1..Len(datasets) : GetValidationDataset(d)

----------------------------------------------------------------------------
\* The cache section of SapienDataset.__init__, one process p.

CacheInit ==
  /\ dataset_dir \in CacheDirs
  /\ pc = [p \in Procs |-> "idle"]
  /\ use_cache = [p \in Procs |-> TRUE]
  /\ lock = NoProc
  /\ archive = NoArchive
  /\ replay_buffer = [p \in Procs |-> NoStore]
  /\ exc = [p \in Procs |-> NoExc]
  /\ origExc = [p \in Procs |-> NoExc]
  /\ path = [p \in Procs |-> "none"]
  /\ seenArchive = [p \in Procs |-> NoArchive]
  /\ converts = 0
  /\ saves = 0
  /\ failures = [build |-> 0, save |-> 0]

\* No process constructs a dataset.
CacheIdle ==
  /\ dataset_dir = <<>>
  /\ pc = [p \in Procs |-> "idle"]
  /\ use_cache = [p \in Procs |-> TRUE]
  /\ lock = NoProc
  /\ archive = NoArchive
  /\ replay_buffer = [p \in Procs |-> NoStore]
  /\ exc = [p \in Procs |-> NoExc]
  /\ origExc = [p \in Procs |-> NoExc]
  /\ path = [p \in Procs |-> "none"]
  /\ seenArchive = [p \in Procs |-> NoArchive]
  /\ converts = 0
  /\ saves = 0
  /\ failures = [build |-> 0, save |-> 0]

\* SapienDataset(..., use_cache=uc) is called.
Start(p, uc) ==
  /\ pc[p] = "idle"
  /\ use_cache' = [use_cache EXCEPT ![p] = uc]
  /\ pc' = [pc EXCEPT ![p] = IF uc THEN "acquire" ELSE "direct"]
  /\ UNCHANGED <<dataset_dir, lock, archive, replay_buffer, exc, origExc, path,
                 seenArchive, converts, saves, failures>>
  /\ UNCHANGED nonCacheVars

\* with FileLock(cache_lock_path): blocks until the lock is free.
Acquire(p) ==
  /\ pc[p] = "acquire"
  /\ LockFree(lock)
  /\ lock' = p
  /\ pc' = [pc EXCEPT ![p] = "check"]
  /\ UNCHANGED <<dataset_dir, use_cache, archive, replay_buffer, exc, origExc,
                 path, seenArchive, converts, saves, failures>>
  /\ UNCHANGED nonCacheVars

\* if not os.path.exists(cache_zarr_path): ... else: ...
CheckExists(p) ==
  /\ pc[p] = "check"
  /\ pc' = [pc EXCEPT ![p] = IF PathExists(archive) THEN "load" ELSE "build"]
  /\ path' = [path EXCEPT ![p] = IF PathExists(archive) THEN "load" ELSE "build"]
  /\ seenArchive' = [seenArchive EXCEPT ![p] = archive]
  /\ UNCHANGED <<dataset_dir, use_cache, lock, archive, replay_buffer, exc,
                 origExc, converts, saves, failures>>
  /\ UNCHANGED nonCacheVars

\* replay_buffer = _convert_sapein_to_dp_replay(...) inside the try. The converter
\* raises on a directory it cannot convert, and may raise on any directory (a
\* failed encode task, an I/O error).
Build(p) ==
  /\ pc[p] = "build"
  /\ converts' = converts + 1
  /\ \/ /\ ~ConvertRaises(dataset_dir)
        /\ replay_buffer' = [replay_buffer EXCEPT ![p] = BuildCached(dataset_dir)]
        /\ pc' = [pc EXCEPT ![p] = "open"]
        /\ UNCHANGED <<exc, origExc, failures>>
     \/ /\ exc' = [exc EXCEPT ![p] = "BuildError"]
        /\ origExc' = [origExc EXCEPT ![p] = "BuildError"]
        /\ failures' = [failures EXCEPT !.build = @ + 1]
        /\ pc' = [pc EXCEPT ![p] = "cleanup"]
        /\ UNCHANGED replay_buffer
  /\ UNCHANGED <<dataset_dir, use_cache, lock, archive, path, seenArchive, saves>>
  /\ UNCHANGED nonCacheVars

\* with zarr.ZipStore(cache_zarr_path) as zip_store: the file is created empty,
\* unless opening it raises.
OpenZip(p) ==
  /\ pc[p] = "open"
  /\ saves' = saves + 1
  /\ \/ /\ archive' = [exists |-> TRUE, entries |-> <<>>]
        /\ pc' = [pc EXCEPT ![p] = "save"]
        /\ UNCHANGED <<exc, origExc, failures>>
     \/ /\ exc' = [exc EXCEPT ![p] = "SaveError"]
        /\ origExc' = [origExc EXCEPT ![p] = "SaveError"]
        /\ failures' = [failures EXCEPT !.save = @ + 1]
        /\ pc' = [pc EXCEPT ![p] = "cleanup"]
        /\ UNCHANGED archive
  /\ UNCHANGED <<dataset_dir, use_cache, lock, replay_buffer, path, seenArchive,
                 converts>>
  /\ UNCHANGED nonCacheVars

\* replay_buffer.save_to_store(store=zip_store): the next entry is written, or the
\* write raises and the zip store is closed with the entries written so far.
SaveEntry(p) ==
  /\ pc[p] = "save"
  /\ LET todo == EntriesOf(replay_buffer[p])
         n == Len(archive.entries)
     IN \/ /\ n < Len(todo)
           /\ archive' = [archive EXCEPT !.entries = Append(@, todo[n + 1])]
           /\ pc' = [pc EXCEPT ![p] = IF n + 1 = Len(todo) THEN "release" ELSE "save"]
           /\ UNCHANGED <<exc, origExc, failures>>
        \/ /\ exc' = [exc EXCEPT ![p] = "SaveError"]
           /\ origExc' = [origExc EXCEPT ![p] = "SaveError"]
           /\ failures' = [failures EXCEPT !.save = @ + 1]
           /\ pc' = [pc EXCEPT ![p] = "cleanup"]
           /\ UNCHANGED archive
  /\ UNCHANGED <<dataset_dir, use_cache, lock, replay_buffer, path, seenArchive,
                 converts, saves>>
  /\ UNCHANGED nonCacheVars

\* except Exception as e: shutil.rmtree(cache_zarr_path); raise e
Cleanup(p) ==
  /\ pc[p] = "cleanup"
  /\ LET r == Rmtree(archive)
     IN /\ archive' = r.file
        /\ exc' = [exc EXCEPT ![p] = IF r.raises = NoExc THEN @ ELSE r.raises]
  /\ pc' = [pc EXCEPT ![p] = "release"]
  /\ UNCHANGED <<dataset_dir, use_cache, lock, replay_buffer, origExc, path,
                 seenArchive, converts, saves, failures>>
  /\ UNCHANGED nonCacheVars

\* replay_buffer = ReplayBuffer.copy_from_store(src_store=zip_store, ...) with the
\* archive opened read-only.
Load(p) ==
  /\ pc[p] = "load"
  /\ IF CopyRaises(archive.entries)
     THEN /\ exc' = [exc EXCEPT ![p] = "LoadError"]
          /\ UNCHANGED replay_buffer
     ELSE /\ replay_buffer' = [replay_buffer EXCEPT ![p] = CopyFromStore(archive.entries)]
          /\ UNCHANGED exc
  /\ pc' = [pc EXCEPT ![p] = "release"]
  /\ UNCHANGED <<dataset_dir, use_cache, lock, archive, origExc, path, seenArchive,
                 converts, saves, failures>>
  /\ UNCHANGED nonCacheVars

\* A release that happens only when no exception propagates.
ReleasedOnSuccessOnly(holder, p, e) ==
  IF holder = p /\ e = NoExc THEN NoProc ELSE holder

\* The lock holder after FileLock.__exit__, whatever exception e propagates.
Released(holder, p, e) == IF holder = p THEN NoProc ELSE holder

\* The with FileLock block is left, by return or by exception.
Release(p) ==
  /\ pc[p] = "release"
  /\ lock' = Released(lock, p, exc[p])
  /\ pc' = [pc EXCEPT ![p] = IF exc[p] = NoExc THEN "returned" ELSE "raised"]
  /\ UNCHANGED <<dataset_dir, use_cache, archive, replay_buffer, exc, origExc,
                 path, seenArchive, converts, saves, failures>>
  /\ UNCHANGED nonCacheVars

\* use_cache=False: the converter is called with no lock and nothing is persisted.
Direct(p) ==
  /\ pc[p] = "direct"
  /\ path' = [path EXCEPT ![p] = "direct"]
  /\ \/ /\ ~ConvertRaises(dataset_dir)
        /\ replay_buffer' = [replay_buffer EXCEPT ![p] = BuildDirect(dataset_dir)]
        /\ pc' = [pc EXCEPT ![p] = "returned"]
        /\ UNCHANGED exc
     \/ /\ exc' = [exc EXCEPT ![p] = "BuildError"]
        /\ pc' = [pc EXCEPT ![p] = "raised"]
        /\ UNCHANGED replay_buffer
  /\ UNCHANGED <<dataset_dir, use_cache, lock, archive, origExc, seenArchive,
                 converts, saves, failures>>
  /\ UNCHANGED nonCacheVars

\* Every step of a process once it has been started.
Proceed(p) ==
  \/ Acquire(p)
  \/ CheckExists(p)
  \/ Build(p)
  \/ OpenZip(p)
  \/ SaveEntry(p)
  \/ Cleanup(p)
  \/ Load(p)
  \/ Release(p)
  \/ Direct(p)

CacheNext ==
  \/ \E p \in Procs, uc \in BOOLEAN : Start(p, uc)
  \/ \E p \in Procs : Proceed(p)

\* The cache section alone: no converter is being traced.
Init == CacheInit /\ BuildIdle /\ SplitIdle

Spec == Init /\ [][CacheNext]_vars

\* One run of the converter, with no cache section around it.
ConverterInit == BuildInit /\ CacheIdle /\ SplitIdle

BuildSpec == ConverterInit /\ [][BuildNext]_vars

DatasetInit == SplitInit /\ CacheIdle /\ BuildIdle

\* Datasets over one store and the validation datasets derived from them.
SplitSpec == DatasetInit /\ [][SplitNext]_vars

\* A started process keeps running: every step of __init__ terminates.
FairSpec == Spec /\ \A p \in Procs : WF_vars(Proceed(p))

\* The converter with its threads running: the submitting thread goes on while
\* it is not blocked in wait, and the pool runs every task it was given (the
\* with block of line 162 joins the pool on every exit).
FairBuildSpec == BuildSpec /\ WF_vars(BuildNext)

----------------------------------------------------------------------------
\* Properties of the cache section.

Finished(p) == pc[p] \in {"returned", "raised"}

\* The archive exists and is not the complete archive of the directory's store.
ArchivePartial ==
  /\ archive.exists
  /\ \/ ConvertRaises(dataset_dir)
     \/ archive.entries # EntriesOf(BuildCached(dataset_dir))

\* C1: when a construction whose build or save raised hands control back to
\* its caller, no file exists at cache.zarr.zip.
C1_NoArchiveAfterFailure ==
  [][\A p \in Procs :
       (pc[p] = "release" /\ pc'[p] = "raised" /\ origExc[p] # NoExc)
          => ~archive'.exists]_vars

\* C2: the exception that leaves a construction whose build or save raised E
\* is E itself.
C2_OriginalErrorPropagates ==
  \A p \in Procs :
    (pc[p] = "raised" /\ origExc[p] # NoExc) => exc[p] = origExc[p]

\* No process is at the existence check or the load while another process is
\* between the start of its build and the end of its save or cleanup.
MutualExclusion ==
  \A p, q \in Procs :
    (p # q /\ pc[p] \in {"check", "load"})
       => pc[q] \notin {"build", "open", "save", "cleanup", "release"}

\* C3: no process is at the check or the load while another builds, saves or
\* cleans up; that is, no process takes the load path on a partially written
\* archive.
C3_NoLoadOfPartialArchive ==
  /\ MutualExclusion
  /\ \A p \in Procs : pc[p] = "load" => ~ArchivePartial

\* C4: as long as no build and no save has failed, the converter and the
\* archive write are run by exactly one process; every other construction
\* that gets through the cache section takes the load path, and a load leaves
\* the archive as the existence check found it.
C4_BuiltExactlyOnce ==
  (failures.build = 0 /\ failures.save = 0) =>
    /\ converts <= 1
    /\ saves <= 1
    /\ Cardinality({p \in Procs : path[p] = "build"}) <= 1
    /\ \A p \in Procs :
         (Finished(p) /\ path[p] \in {"build", "load"})
            => converts = 1 /\ saves = 1
    /\ \A p \in Procs :
         path[p] = "load"
            => /\ archive = seenArchive[p]
               /\ ~ArchivePartial

\* Two processes went through the cache section with no failure: one built,
\* the other loaded.
C4_Witness ==
  \E p, q \in Procs :
    /\ pc[p] = "returned" /\ path[p] = "build"
    /\ pc[q] = "returned" /\ path[q] = "load"
    /\ failures.build = 0 /\ failures.save = 0

\* C5: a process that has returned or raised does not hold the lock, and a
\* held lock is always released later, on every path through the section.
C5_LockReleased ==
  /\ [](\A p \in Procs : (pc[p] = "idle" \/ Finished(p)) => lock # p)
  /\ \A p \in Procs : (lock = p) ~> (lock # p)

\* A process raised out of a failed save and another one holds the lock after it.
C5_Witness ==
  \E p, q \in Procs :
    /\ pc[p] = "raised" /\ origExc[p] = "SaveError"
    /\ lock = q /\ q # p

----------------------------------------------------------------------------
\* Properties of the converter.

\* Raw step count of episode k (1-based), and the first store row of episode k.
StepCount(k) == files[k].steps
EpisodeStart(k) == IF k = 1 THEN 0 ELSE episode_ends[k - 1]

\* C7: after a successful build over N episodes, episode_ends has N values,
\* never decreases, each difference is the raw step count of its episode in the
\* order episode_0 .. episode_{N-1}, and the last value is the total step count.
C7_EpisodeEndsMatchStepCounts ==
  bpc = "done" =>
    /\ Len(episode_ends) = num_episodes
    /\ Len(files) = num_episodes
    /\ \A k \in 1..Len(episode_ends) :
         /\ episode_ends[k] - EpisodeStart(k) = StepCount(k)
         /\ EpisodeStart(k) <= episode_ends[k]
    /\ episode_ends[Len(episode_ends)] =
          SumOver([k \in 1..Len(files) |-> StepCount(k)], 1..Len(files))
    /\ n_steps = episode_ends[Len(episode_ends)]

\* A build of two episodes of different, non-zero lengths returned.
C7_Witness ==
  /\ bpc = "done"
  /\ Len(files) = 2
  /\ files[1].steps = 2
  /\ files[2].steps = 1
  /\ episode_ends = <<2, 3>>

\* The row that step j (0-based) of episode k (1-based) contributes to array key.
ExpectedRow(key, k, j) ==
  IF key = "action" THEN ConvertAction(<<k - 1, j>>, RotationRep)
  ELSE IF key \in Range(shape_meta.rgb_keys)
       THEN Jpeg2k(Resize(RawRow(key, k - 1, j)))
       ELSE RawRow(key, k - 1, j)

\* C8: in a store a build returned, every data array has n_steps rows and the
\* rows [episode_ends[k-1], episode_ends[k]) of every array are the steps of
\* episode k in order, whatever the frame counts of the image streams are.
C8_RowsBelongToTheirEpisode ==
  bpc = "done" =>
    \A key \in DOMAIN data_group :
      /\ Len(data_group[key]) = n_steps
      /\ \A k \in 1..Len(files) :
           \A j \in 0..(StepCount(k) - 1) :
             data_group[key][EpisodeStart(k) + j + 1] = ExpectedRow(key, k, j)

\* Every low_dim array (and action) has n_steps rows, each the step of the
\* episode that owns it: the part of C8 that holds.
LowdimRowsBelongToTheirEpisode ==
  bpc = "done" =>
    \A key \in DOMAIN lowdim_data_dict :
      /\ Len(data_group[key]) = n_steps
      /\ \A k \in 1..Len(files) :
           \A j \in 0..(StepCount(k) - 1) :
             data_group[key][EpisodeStart(k) + j + 1] = ExpectedRow(key, k, j)

\* What a run that encodes one frame after the other leaves in an image array
\* of n chunks: frame i of the concatenated stream at chunk i.
SequentialImage(frames, n) ==
  [i \in 1..n |-> IF i <= Len(frames) THEN Jpeg2k(frames[i]) ELSE Unwritten]

\* The concatenated resized frames of stream key in the files read.
StreamOf(key) ==
  Concat([k \in 1..Len(files) |-> ResizedFrames(key, k - 1, files[k].img[key])])

\* C9: the store a build returns is the same for every max_inflight_tasks and
\* every completion order of the encode tasks: it is a function of the files
\* and the shape metadata alone, the one a frame-by-frame run produces.
C9_StoreIndependentOfConcurrency ==
  bpc = "done" =>
    /\ episode_ends = EpisodeEnds([k \in 1..Len(files) |-> StepCount(k)])
    /\ data_group["action"] =
         Concat([k \in 1..Len(files) |-> ActionArray(k - 1, StepCount(k))])
    /\ \A key \in Range(shape_meta.lowdim_keys) :
         data_group[key] =
           Concat([k \in 1..Len(files) |-> LowdimArray(key, k - 1, files[k].low[key])])
    /\ \A key \in Range(shape_meta.rgb_keys) :
         data_group[key] = SequentialImage(StreamOf(key), n_steps)
    /\ DOMAIN data_group =
         {"action"} \cup Range(shape_meta.lowdim_keys) \cup Range(shape_meta.rgb_keys)

\* A build with more than one task in flight returned after a task had
\* finished before one submitted earlier.
C9_Witness ==
  /\ bpc = "done"
  /\ max_inflight_tasks > 1
  /\ overtaken
  /\ \E key \in Range(shape_meta.rgb_keys) : Len(StreamOf(key)) >= 2

----------------------------------------------------------------------------
\* Properties of the encode tasks.

\* The number of encode tasks submitted and not yet collected.
Outstanding == Cardinality(futures)

\* A frame of the current image field is still to be submitted.
FrameRemains ==
  /\ bpc = "rgb"
  /\ key_idx >= 1
  /\ hdf5_idx < Len(Hdf5Arr)

\* The step submits an encode task.
Submits == Len(submitted') = Len(submitted) + 1

\* C11: at every moment the number of outstanding encode tasks is at most
\* max_inflight_tasks, whatever image field they belong to; a task submitted
\* while the count is at the cap is submitted only after one of the outstanding
\* tasks has completed; and below the cap the next frame can always be
\* submitted, and its submission collects nothing, so it waits for no task.
C11_InflightBounded ==
  /\ [](Outstanding <= max_inflight_tasks)
  /\ []((FrameRemains /\ Outstanding < max_inflight_tasks) => ENABLED SubmitFrame)
  /\ [][Submits =>
          IF Outstanding >= max_inflight_tasks
          THEN \E f \in futures : f.state # "queued" /\ f \notin futures'
          ELSE futures \subseteq futures' /\ Cardinality(futures') = Outstanding + 1]_vars

\* The count is at the cap, more tasks have been submitted than the cap lets
\* be outstanding, and the second image field is being dumped.
C11_Witness ==
  /\ bpc = "rgb"
  /\ key_idx = 2
  /\ Outstanding = max_inflight_tasks
  /\ max_inflight_tasks > 1
  /\ Len(submitted) > max_inflight_tasks
  /\ \E f \in futures : f.state = "queued"

\* Task f is taken out of futures by the step (a step of a pool thread keeps
\* the task and changes its state).
Collected(f) ==
  ~\E g \in futures' : g.key = f.key /\ g.hdf5_idx = f.hdf5_idx

\* C12: once an encode task has failed the build raises (from some moment on,
\* a failed task means a raised build) and never returns a store. No task is still outstanding when the build returns, a task leaves
\* the outstanding ones only completed, and when a failed one leaves them (wait
\* has handed it to the submitter) that step raises and submits nothing; nothing
\* is submitted after the raise.
C12_FailedTaskAbortsBuild ==
  /\ [](bpc = "done" => ~task_failed /\ futures = {})
  /\ [][\A f \in futures :
          Collected(f) =>
            /\ f.state # "queued"
            /\ f.state = "failed" => bpc' = "failed" /\ ~Submits]_vars
  /\ [][bpc = "failed" => bpc' = "failed" /\ submitted' = submitted]_vars
  /\ <>[](task_failed => bpc = "failed")

\* The build raised inside the loop over the frames, with frames of the field
\* left unsubmitted, after a task had failed.
C12_Witness ==
  /\ bpc = "failed"
  /\ task_failed
  /\ key_idx >= 1
  /\ hdf5_idx < Len(Hdf5Arr)
  /\ Len(submitted) >= 2

\* The step changes frame i of the destination array of image field key.
Writes(key, i) ==
  /\ key \in DOMAIN data_group
  /\ i \in DOMAIN data_group[key]
  /\ data_group'[key][i] # data_group[key][i]

\* C13: no (image array, frame index) pair is submitted twice, so no two
\* outstanding tasks share a pair; and a step that writes a frame of an image
\* array is the run of the one task that owns that pair, on a frame no task
\* has written before.
C13_NoWriteWriteConflict ==
  /\ [](\A i, j \in DOMAIN submitted : submitted[i] = submitted[j] => i = j)
  /\ [](\A f, g \in futures :
          (f.key = g.key /\ f.zarr_idx = g.zarr_idx) => f = g)
  /\ [][\A key \in Range(shape_meta.rgb_keys) : \A i \in 1..n_steps :
          Writes(key, i) =>
            /\ data_group[key][i] = Unwritten
            /\ \E f \in futures :
                 /\ f.state = "queued"
                 /\ <<f.key, f.zarr_idx + 1>> = <<key, i>>
                 /\ futures' \ futures \subseteq
                      {[f EXCEPT !.state = st] : st \in {"ok", "failed"}}]_vars

\* A build over two image fields returned after three or more tasks, one of
\* which finished before a task submitted earlier.
C13_Witness ==
  /\ bpc = "done"
  /\ overtaken
  /\ Len(submitted) >= 3
  /\ \E i, j \in DOMAIN submitted : submitted[i][1] # submitted[j][1]
  /\ \E i, j \in DOMAIN submitted :
        i # j /\ submitted[i][1] = submitted[j][1]

----------------------------------------------------------------------------
\* Properties of the masks.

\* Every episode is in exactly one of the two masks.
Complementary(m1, m2) ==
  /\ DOMAIN m1 = 1..n_episodes
  /\ DOMAIN m2 = 1..n_episodes
  /\ \A e \in 1..n_episodes : m1[e] # m2[e]

\* C10: the train mask of a dataset and the mask of the dataset that
\* get_validation_dataset returns for it are complementary, in train_mask and in
\* the sampler; the call leaves the original's sampler and train_mask as they
\* were; and the validation dataset of a validation dataset has the original
\* train mask again.
C10_MasksComplementary ==
  \A c \in calls :
    /\ Complementary(datasets[c.self].train_mask, datasets[c.val_set].train_mask)
    /\ Complementary(datasets[c.self].sampler.episode_mask,
                     datasets[c.val_set].sampler.episode_mask)
    /\ datasets[c.val_set].sampler.episode_mask = datasets[c.val_set].train_mask
    /\ datasets[c.self] = c.before
    /\ \A c2 \in calls :
         c2.self = c.val_set
            => /\ datasets[c2.val_set].train_mask = datasets[c.self].train_mask
               /\ datasets[c2.val_set].sampler = datasets[c.self].sampler

\* A dataset with episodes on both sides of the split, its validation dataset,
\* and the validation dataset of that one.
C10_Witness ==
  \E c, c2 \in calls :
    /\ c.self = 1
    /\ c2.self = c.val_set
    /\ n_episodes >= 2
    /\ \E e1, e2 \in 1..n_episodes :
         datasets[1].train_mask[e1] /\ ~datasets[1].train_mask[e2]
====
